---- MODULE Spec2Model ----
(***************************************************************************)
(* Model of app.py: the ticker normaliser format_ticker and the analysis   *)
(* function calculate_logic (Wilder RSI, percentile rank, ATR, signal      *)
(* classification and price zones).                                        *)
(*                                                                         *)
(* Strings are sequences of one-character strings.  Floats are exact       *)
(* rationals <<num, den>> in lowest terms with den > 0; NaN is <<0, 0>>.   *)
(***************************************************************************)
EXTENDS Integers, Sequences, FiniteSets, TLC

VARIABLES
    raw_input,  \* the text of the sidebar input
    ticker,     \* format_ticker(raw_input)
    df,         \* the price table handed to calculate_logic
    res,        \* the dictionary calculate_logic returns
    width,      \* the local variable width of calculate_logic
    err,        \* the exception calculate_logic raised, "none" if it returned
    pc          \* "start" before the call, "done" after it

vars == <<raw_input, ticker, df, res, width, err, pc>>

(***************************************************************************)
(* Bounds                                                                  *)
(***************************************************************************)
\* number of tokens an entered string is built from
MaxTokens == 4

\* number of bars that follow the flat lead-in of a price table
MaxSteps == 5

(***************************************************************************)
(* Strings                                                                 *)
(***************************************************************************)
Digits == {"0", "1", "2", "3", "4", "5", "6", "7", "8", "9"}

\* str.upper() on the characters of the alphabet
UpperChar(c) ==
    CASE c = "b" -> "B"
      [] c = "h" -> "H"
      [] c = "k" -> "K"
      [] OTHER -> c

Upper(s) == [i \in 1..Len(s) |-> UpperChar(s[i])]

IsSpace(c) == c = " "

RECURSIVE LStrip(_)
LStrip(s) ==
    IF s = <<>> THEN s
    ELSE IF IsSpace(Head(s)) THEN LStrip(Tail(s)) ELSE s

RECURSIVE RStrip(_)
RStrip(s) ==
    IF s = <<>> THEN s
    ELSE IF IsSpace(s[Len(s)]) THEN RStrip(SubSeq(s, 1, Len(s) - 1)) ELSE s

\* str.strip()
Strip(s) == RStrip(LStrip(s))

\* str.endswith(suf)
EndsWith(s, suf) ==
    /\ Len(s) >= Len(suf)
    /\ SubSeq(s, Len(s) - Len(suf) + 1, Len(s)) = suf

\* str.startswith(('6', '9'))
StartsWithAny(s, cs) == Len(s) >= 1 /\ s[1] \in cs

\* "." in s
Contains(s, c) == \E i \in 1..Len(s) : s[i] = c

\* str.isdigit(): non-empty and every character a digit
IsDigit(s) == Len(s) >= 1 /\ \A i \in 1..Len(s) : s[i] \in Digits

\* str.split("."): the pieces between the separators, empty pieces kept
RECURSIVE SplitFrom(_, _, _)
SplitFrom(s, i, cur) ==
    IF i > Len(s) THEN <<cur>>
    ELSE IF s[i] = "." THEN <<cur>> \o SplitFrom(s, i + 1, <<>>)
    ELSE SplitFrom(s, i + 1, Append(cur, s[i]))

Split(s) == SplitFrom(s, 1, <<>>)

Zeros(n) == [i \in 1..n |-> "0"]

\* str.zfill(width): zeros go after a leading sign character
ZFill(s, n) ==
    IF Len(s) >= n THEN s
    ELSE IF Len(s) >= 1 /\ s[1] \in {"+", "-"}
         THEN <<s[1]>> \o Zeros(n - Len(s)) \o Tail(s)
         ELSE Zeros(n - Len(s)) \o s

\* str.replace(".", "-")
Replace(s) == [i \in 1..Len(s) |-> IF s[i] = "." THEN "-" ELSE s[i]]

DotHK == <<".", "H", "K">>
DotSS == <<".", "S", "S">>
DotSZ == <<".", "S", "Z">>
AAPL == <<"A", "A", "P", "L">>

\* format_ticker without the guard that keeps .SS / .SZ suffixes
format_ticker_noguard(s0) ==
    IF s0 = <<>> THEN AAPL
    ELSE LET s == Upper(Strip(s0)) IN
         IF EndsWith(s, DotHK)
         THEN LET parts == Split(s) IN ZFill(parts[1], 5) \o <<".">> \o parts[2]
         ELSE IF Contains(s, ".")
         THEN Replace(s)
         ELSE IF IsDigit(s) /\ Len(s) = 6
         THEN IF StartsWithAny(s, {"6", "9"}) THEN s \o DotSS ELSE s \o DotSZ
         ELSE s

\* format_ticker that sends only a leading '6' to Shanghai
format_ticker_only6(s0) ==
    IF s0 = <<>> THEN AAPL
    ELSE LET s == Upper(Strip(s0)) IN
         IF EndsWith(s, DotHK)
         THEN LET parts == Split(s) IN ZFill(parts[1], 5) \o <<".">> \o parts[2]
         ELSE IF Contains(s, ".") /\ ~(EndsWith(s, DotSS) \/ EndsWith(s, DotSZ))
         THEN Replace(s)
         ELSE IF IsDigit(s) /\ Len(s) = 6
         THEN IF StartsWithAny(s, {"6"}) THEN s \o DotSS ELSE s \o DotSZ
         ELSE s

format_ticker(s0) ==
    IF s0 = <<>> THEN AAPL
    ELSE LET s == Upper(Strip(s0)) IN
         IF EndsWith(s, DotHK)
         THEN LET parts == Split(s) IN ZFill(parts[1], 5) \o <<".">> \o parts[2]
         ELSE IF Contains(s, ".") /\ ~(EndsWith(s, DotSS) \/ EndsWith(s, DotSZ))
         THEN Replace(s)
         ELSE IF IsDigit(s) /\ Len(s) = 6
         THEN IF StartsWithAny(s, {"6", "9"}) THEN s \o DotSS ELSE s \o DotSZ
         ELSE s

(***************************************************************************)
(* Entered strings: up to MaxTokens tokens, concatenated                   *)
(***************************************************************************)
Tokens ==
    { <<" ">>, <<"6">>, <<"9">>, <<"0", "0">>, <<"0", "0", "0">>, <<"b">>,
      <<".">>, <<".", "h", "k">>, <<".", "S", "S">>, <<".", "S", "Z">>,
      <<"-">> }

RECURSIVE Concat(_)
Concat(ts) == IF ts = <<>> THEN <<>> ELSE Head(ts) \o Concat(Tail(ts))

Inputs ==
    { Concat(ts) : ts \in UNION { [1..k -> Tokens] : k \in 0..MaxTokens } }

NoResult == [kind |-> "none"]

(***************************************************************************)
(* Floats as exact rationals <<num, den>>, den > 0, lowest terms; NaN is   *)
(* <<0, 0>>.  Rounding of the float arithmetic is not represented.         *)
(***************************************************************************)
NaN == <<0, 0>>

IsNaN(x) == x[2] = 0

Abs(n) == IF n < 0 THEN -n ELSE n

RECURSIVE GCD(_, _)
GCD(a, b) == IF b = 0 THEN a ELSE GCD(b, a % b)

Norm(n, d) ==
    LET g == GCD(Abs(n), d) IN <<n \div g, d \div g>>

Rat(n) == <<n, 1>>

\* x + y
FAdd(x, y) ==
    IF IsNaN(x) \/ IsNaN(y) THEN NaN
    ELSE LET g == GCD(x[2], y[2])
             l == (x[2] \div g) * y[2]
         IN  Norm(x[1] * (l \div x[2]) + y[1] * (l \div y[2]), l)

FNeg(x) == IF IsNaN(x) THEN NaN ELSE <<-x[1], x[2]>>

\* x - y
FSub(x, y) == FAdd(x, FNeg(y))

\* x * y
FMul(x, y) ==
    IF IsNaN(x) \/ IsNaN(y) THEN NaN
    ELSE LET g1 == GCD(Abs(x[1]), y[2])
             g2 == GCD(Abs(y[1]), x[2])
         IN  Norm((x[1] \div g1) * (y[1] \div g2), (x[2] \div g2) * (y[2] \div g1))

\* x / y for y # 0 (every divisor in the program is non-zero or NaN)
FDiv(x, y) ==
    IF IsNaN(x) \/ IsNaN(y) THEN NaN
    ELSE IF y[1] > 0 THEN FMul(x, <<y[2], y[1]>>)
    ELSE FMul(x, <<-y[2], -y[1]>>)

FAbs(x) == IF IsNaN(x) THEN NaN ELSE <<Abs(x[1]), x[2]>>

\* a/b < c/d for b, d > 0, by comparing continued-fraction expansions
RECURSIVE FracLess(_, _, _, _)
FracLess(a, b, c, d) ==
    LET qa == a \div b
        qc == c \div d
        ra == a % b
        rc == c % d
    IN  IF qa # qc THEN qa < qc
        ELSE IF rc = 0 THEN FALSE
        ELSE IF ra = 0 THEN TRUE
        ELSE FracLess(d, rc, b, ra)

\* x < y; any comparison with NaN is False
FLess(x, y) ==
    IF IsNaN(x) \/ IsNaN(y) THEN FALSE
    ELSE FracLess(x[1], x[2], y[1], y[2])

\* x > y
FGreater(x, y) == FLess(y, x)

\* the builtin max(a, b): a unless b > a
PyMax(a, b) == IF FGreater(b, a) THEN b ELSE a

(***************************************************************************)
(* Program constants                                                       *)
(***************************************************************************)
\* rsi_wilder(close, period=14)
period == 14

\* close.tail(756)
Window == 756

\* tr.rolling(14)
AtrWindow == 14

(***************************************************************************)
(* Series helpers                                                          *)
(***************************************************************************)
\* df['Close'].dropna()
DropNa(s) == SelectSeq(s, LAMBDA x : ~IsNaN(x))

CloseColumn(t) == [i \in 1..Len(t) |-> t[i].Close]

\* close.diff(): no change is defined at the first position
Diff(close, i) == IF i = 1 THEN NaN ELSE FSub(close[i], close[i - 1])

\* delta.clip(lower=0)
Gain(close, i) ==
    LET d == Diff(close, i) IN
    IF IsNaN(d) THEN NaN ELSE IF d[1] < 0 THEN Rat(0) ELSE d

\* -delta.clip(upper=0)
Loss(close, i) ==
    LET d == Diff(close, i) IN
    IF IsNaN(d) THEN NaN ELSE IF d[1] > 0 THEN Rat(0) ELSE FNeg(d)

\* one step of ewm(alpha=1/period, adjust=False).mean(): the first value
\* that is not NaN seeds the average
EwmStep(w, cur) ==
    IF ~IsNaN(w)
    THEN IF ~IsNaN(cur)
         THEN FAdd(FMul(<<period - 1, period>>, w), FMul(<<1, period>>, cur))
         ELSE w
    ELSE cur

RECURSIVE AvgGain(_, _)
AvgGain(close, i) ==
    IF i = 1 THEN Gain(close, 1)
    ELSE EwmStep(AvgGain(close, i - 1), Gain(close, i))

RECURSIVE AvgLoss(_, _)
AvgLoss(close, i) ==
    IF i = 1 THEN Loss(close, 1)
    ELSE EwmStep(AvgLoss(close, i - 1), Loss(close, i))

\* avg_loss.replace(0, np.nan)
ReplaceZero(x) == IF ~IsNaN(x) /\ x[1] = 0 THEN NaN ELSE x

\* rsi_wilder(close)[i]
rsi_wilder(close, i) ==
    LET rs == FDiv(AvgGain(close, i), ReplaceZero(AvgLoss(close, i)))
    IN  FSub(Rat(100), FDiv(Rat(100), FAdd(Rat(1), rs)))

\* close.tail(756)
TailWindow(close) ==
    SubSeq(close, IF Len(close) > Window THEN Len(close) - Window + 1 ELSE 1,
           Len(close))

\* rank(pct=True) with ties given the highest rank of their group
PctRankLastMax(w) ==
    LET n == Len(w)
        less == Cardinality({i \in 1..n : FLess(w[i], w[n])})
        same == Cardinality({i \in 1..n : w[i] = w[n]})
    IN  Norm(less + same, n)

\* w.rank(pct=True).iloc[-1]: ties share the average of their ranks
PctRankLast(w) ==
    LET n == Len(w)
        less == Cardinality({i \in 1..n : FLess(w[i], w[n])})
        same == Cardinality({i \in 1..n : w[i] = w[n]})
    IN  Norm(2 * less + same + 1, 2 * n)

\* close.shift(1) aligned to row i of the table: the valid close before the
\* row when the row has a close, missing otherwise
RECURSIVE LastValidBefore(_, _)
LastValidBefore(t, i) ==
    IF i = 0 THEN NaN
    ELSE IF ~IsNaN(t[i].Close) THEN t[i].Close
    ELSE LastValidBefore(t, i - 1)

ShiftedClose(t, i) ==
    IF IsNaN(t[i].Close) THEN NaN ELSE LastValidBefore(t, i - 1)

\* max(axis=1) of two cells, NaN skipped
MaxSkipNa(a, b) ==
    IF IsNaN(a) THEN b ELSE IF IsNaN(b) THEN a
    ELSE IF FLess(a, b) THEN b ELSE a

\* row i of tr
TrueRange(t, i) ==
    LET pcl == ShiftedClose(t, i) IN
    MaxSkipNa(MaxSkipNa(FSub(t[i].High, t[i].Low),
                        FAbs(FSub(t[i].High, pcl))),
              FAbs(FSub(t[i].Low, pcl)))

RECURSIVE SumTr(_, _, _)
SumTr(t, lo, hi) ==
    IF lo > hi THEN Rat(0) ELSE FAdd(TrueRange(t, hi), SumTr(t, lo, hi - 1))

\* tr.rolling(14).mean().iloc[-1]: NaN until 14 rows are in the window
Atr(t) ==
    IF Len(t) < AtrWindow THEN NaN
    ELSE FDiv(SumTr(t, Len(t) - AtrWindow + 1, Len(t)), Rat(AtrWindow))

\* the if / elif chain that picks the signal with Build tested first
Signal_buildFirst(cond_A, cond_B, cond_C) ==
    IF cond_A /\ cond_B THEN "Build"
    ELSE IF cond_A /\ cond_B /\ cond_C THEN "Add"
    ELSE IF cond_A \/ cond_B THEN "Probe"
    ELSE "Watch"

\* the if / elif chain that picks the signal:
\* "Add" = 加仓, "Build" = 建仓, "Probe" = 试探, "Watch" = 观察
Signal(cond_A, cond_B, cond_C) ==
    IF cond_A /\ cond_B /\ cond_C THEN "Add"
    ELSE IF cond_A /\ cond_B THEN "Build"
    ELSE IF cond_A \/ cond_B THEN "Probe"
    ELSE "Watch"

\* width without the floor of 8% of the last price
BandWidth_nofloor(atr, last) == FMul(<<9, 5>>, atr)

\* width = max(1.8 * atr, last * 0.08)
BandWidth(atr, last) == PyMax(FMul(<<9, 5>>, atr), FMul(last, <<2, 25>>))

\* the zones dictionary
Zones(center, w) ==
    [conservative |-> <<FAdd(center, FMul(<<3, 10>>, w)),
                        FAdd(center, FMul(<<4, 5>>, w))>>,
     neutral      |-> <<FSub(center, FMul(<<1, 5>>, w)),
                        FAdd(center, FMul(<<1, 5>>, w))>>,
     aggressive   |-> <<FSub(center, FMul(<<4, 5>>, w)),
                        FSub(center, FMul(<<3, 10>>, w))>>]

\* the local variable width of calculate_logic
LocalWidth(t) ==
    LET close == DropNa(CloseColumn(t)) IN
    BandWidth(Atr(t), close[Len(close)])

\* calculate_logic(df, info) for a table with at least one valid close
calculate_logic(t) ==
    LET close    == DropNa(CloseColumn(t))
        n        == Len(close)
        last     == close[n]
        rsi_last == rsi_wilder(close, n)
        rsi_prev == IF n > 2 THEN rsi_wilder(close, n - 1) ELSE rsi_last
        pr_3y    == PctRankLast(TailWindow(close))
        cond_A   == FLess(pr_3y, <<3, 10>>)
        cond_B   == FLess(rsi_last, Rat(35))
        cond_C   == FGreater(rsi_last, rsi_prev)
        atr      == Atr(t)
        center   == FMul(last, <<23, 25>>)
        zones    == Zones(center, LocalWidth(t))
    IN  [kind    |-> "ok",
         last    |-> last,
         sig     |-> Signal(cond_A, cond_B, cond_C),
         zones   |-> zones,
         adds    |-> [first    |-> zones.neutral[1],
                      pullback |-> FDiv(FAdd(zones.aggressive[1],
                                             zones.aggressive[2]), Rat(2))],
         metrics |-> [rsi |-> rsi_last, pr_3y |-> pr_3y, atr |-> atr],
         cond    |-> <<cond_A, cond_B, cond_C>>]

(***************************************************************************)
(* Price tables: a flat lead-in at the price Base, then up to MaxSteps     *)
(* bars that move the close or leave it missing                            *)
(***************************************************************************)
\* price of the lead-in bars
Base == 20

Moves == {"down2", "down1", "up1", "up2", "gap"}

Delta(m) ==
    CASE m = "down2" -> -2
      [] m = "down1" -> -1
      [] m = "up1"   -> 1
      [] m = "up2"   -> 2
      [] OTHER       -> 0

\* half of the high-low range of every bar of a table
Spreads == {0, 1}

\* lengths of the lead-in: none, and one short of the ATR window
Leads == {0, AtrWindow - 1}

Bar(level, spread, missing) ==
    [High  |-> Rat(level + spread),
     Low   |-> Rat(level - spread),
     Close |-> IF missing THEN NaN ELSE Rat(level)]

RECURSIVE StepBars(_, _, _)
StepBars(level, spread, ms) ==
    IF ms = <<>> THEN <<>>
    ELSE LET lv == level + Delta(Head(ms)) IN
         <<Bar(lv, spread, Head(ms) = "gap")>> \o StepBars(lv, spread, Tail(ms))

Table(lead, spread, ms) ==
    [i \in 1..lead |-> Bar(Base, spread, FALSE)] \o StepBars(Base, spread, ms)

MoveSeqs == UNION { [1..k -> Moves] : k \in 0..MaxSteps }

Tables ==
    { Table(lead, spread, ms) : lead \in Leads, spread \in Spreads, ms \in MoveSeqs }

(***************************************************************************)
(* Specification of the analysis                                           *)
(***************************************************************************)
InitLogic ==
    /\ raw_input = AAPL
    /\ ticker = AAPL
    /\ df \in Tables
    /\ res = NoResult
    /\ width = NaN
    /\ err = "none"
    /\ pc = "start"

\* res = calculate_logic(df, tk.info); close.iloc[-1] raises IndexError on
\* an empty series
CalculateLogic ==
    /\ pc = "start"
    /\ IF DropNa(CloseColumn(df)) = <<>>
       THEN /\ err' = "IndexError"
            /\ UNCHANGED <<res, width>>
       ELSE /\ res' = calculate_logic(df)
            /\ width' = LocalWidth(df)
            /\ err' = err
    /\ pc' = "done"
    /\ UNCHANGED <<raw_input, ticker, df>>

NextLogic == CalculateLogic

SpecLogic == InitLogic /\ [][NextLogic]_vars

(***************************************************************************)
(* Claims about calculate_logic                                            *)
(***************************************************************************)
Returned == pc = "done" /\ err = "none" /\ res.kind = "ok"

ValidCloses == DropNa(CloseColumn(df))

\* the RSI one position before the last, the last RSI itself when the series
\* has fewer than 3 closes
RsiPrevious ==
    IF Len(ValidCloses) > 2
    THEN rsi_wilder(ValidCloses, Len(ValidCloses) - 1)
    ELSE res.metrics.rsi

\* C1: for each of the 8 combinations of A (percentile rank < 0.30), B (last
\* RSI < 35) and C (last RSI > previous RSI) exactly one signal is returned:
\* A, B and C give Add; A and B without C give Build; exactly one of A and B
\* gives Probe whatever C is; neither A nor B gives Watch whatever C is.
C1_DecisionTable ==
    Returned =>
        /\ res.cond[1] = FLess(res.metrics.pr_3y, <<30, 100>>)
        /\ res.cond[2] = FLess(res.metrics.rsi, <<35, 1>>)
        /\ res.cond[3] = FGreater(res.metrics.rsi, RsiPrevious)
        /\ res.sig =
             CASE res.cond = <<TRUE, TRUE, TRUE>>    -> "Add"
               [] res.cond = <<TRUE, TRUE, FALSE>>   -> "Build"
               [] res.cond = <<TRUE, FALSE, TRUE>>   -> "Probe"
               [] res.cond = <<TRUE, FALSE, FALSE>>  -> "Probe"
               [] res.cond = <<FALSE, TRUE, TRUE>>   -> "Probe"
               [] res.cond = <<FALSE, TRUE, FALSE>>  -> "Probe"
               [] res.cond = <<FALSE, FALSE, TRUE>>  -> "Watch"
               [] res.cond = <<FALSE, FALSE, FALSE>> -> "Watch"

C1_Witness ==
    /\ Returned
    /\ res.cond = <<TRUE, TRUE, TRUE>>
    /\ res.sig = "Add"

\* C2: for a positive last price and a non-negative ATR the zones satisfy
\* conservative.low > neutral.low > aggressive.low, and the band width is
\* never below 8% of the last price.
C2_ZoneOrdering ==
    (/\ Returned
     /\ FGreater(res.last, <<0, 1>>)
     /\ ~IsNaN(res.metrics.atr)
     /\ ~FLess(res.metrics.atr, <<0, 1>>)) =>
        /\ FGreater(res.zones.conservative[1], res.zones.neutral[1])
        /\ FGreater(res.zones.neutral[1], res.zones.aggressive[1])
        /\ ~IsNaN(width)
        /\ ~FLess(width, FMul(<<8, 100>>, res.last))

C2_Witness ==
    /\ Returned
    /\ ~IsNaN(res.metrics.atr)
    /\ res.metrics.atr = <<0, 1>>
    /\ width = FMul(<<8, 100>>, res.last)

\* the mean of the true range over all the bars of the table
MeanTrAvailable == FDiv(SumTr(df, 1, Len(df)), <<Len(df), 1>>)

\* C3: with fewer than 14 bars (down to a single valid close) a result is
\* still returned, its ATR is the average true range over the available
\* bars, and the band width, every zone bound and both add-on prices are
\* defined numbers.
C3_ShortTableAtr ==
    (pc = "done" /\ Len(df) < AtrWindow /\ ValidCloses # <<>>) =>
        /\ Returned
        /\ res.metrics.atr = MeanTrAvailable
        /\ ~IsNaN(width)
        /\ \A z \in {res.zones.conservative, res.zones.neutral,
                     res.zones.aggressive} : ~IsNaN(z[1]) /\ ~IsNaN(z[2])
        /\ ~IsNaN(res.adds.first)
        /\ ~IsNaN(res.adds.pullback)

\* C4: when the smoothed average loss is exactly 0 the RSI is 100 at every
\* position with a defined price change, not NaN.
C4_ZeroLossRsi100 ==
    (/\ Returned
     /\ Len(ValidCloses) >= 2
     /\ AvgLoss(ValidCloses, Len(ValidCloses)) = <<0, 1>>) =>
        res.metrics.rsi = <<100, 1>>

\* closes of the trailing window that are below, and equal to, the last one
WindowLess ==
    LET w == TailWindow(ValidCloses) IN
    Cardinality({i \in 1..Len(w) : FLess(w[i], w[Len(w)])})

WindowSame ==
    LET w == TailWindow(ValidCloses) IN
    Cardinality({i \in 1..Len(w) : w[i] = w[Len(w)]})

WindowSize == Len(TailWindow(ValidCloses))

C6_EmptyRaisesInsufficientData ==
    (pc = "done" /\ ValidCloses = <<>>) =>
        /\ err = "InsufficientDataError"
        /\ res = NoResult

(***************************************************************************)
(* Specification of the ticker normaliser                                  *)
(***************************************************************************)
InitTicker ==
    /\ raw_input \in Inputs
    /\ ticker = <<>>
    /\ df = <<>>
    /\ res = NoResult
    /\ width = NaN
    /\ err = "none"
    /\ pc = "start"

\* ticker = format_ticker(raw_input)
FormatTicker ==
    /\ pc = "start"
    /\ ticker' = format_ticker(raw_input)
    /\ pc' = "done"
    /\ UNCHANGED <<raw_input, df, res, width, err>>

NextTicker == FormatTicker

SpecTicker == InitTicker /\ [][NextTicker]_vars

(***************************************************************************)
(* Claims about format_ticker                                              *)
(***************************************************************************)
IsBlank(s) == \A i \in 1..Len(s) : s[i] = " "

Trimmed == Strip(raw_input)
Canon == Upper(Strip(raw_input))

\* C7: every empty or whitespace-only input is formatted to "AAPL".
C7_BlankGivesDefault ==
    (pc = "done" /\ IsBlank(raw_input)) => ticker = AAPL

\* The text before the ".HK" suffix, left-padded with zeros to 5 characters.
PadLeft(s, n) ==
    IF Len(s) >= n THEN s ELSE [i \in 1..(n - Len(s)) |-> "0"] \o s

\* C8: an input whose trimmed, uppercased form ends with ".HK" is formatted
\* to the text before that suffix, left-padded with zeros to 5 characters
\* (unchanged if already 5 or longer), followed by ".HK".
C8_HongKongPadded ==
    (pc = "done" /\ EndsWith(Canon, DotHK)) =>
        ticker = PadLeft(SubSeq(Canon, 1, Len(Canon) - 3), 5) \o DotHK

\* C9: an input whose trimmed, uppercased form contains "." and does not end
\* with ".HK", ".SS" or ".SZ" is formatted to that form with every "."
\* replaced by "-"; one that ends with ".SS" or ".SZ" is returned trimmed and
\* uppercased with its dots unchanged.
C9_DotsReplacedExceptMainland ==
    pc = "done" =>
        /\ (/\ Contains(Canon, ".")
            /\ ~EndsWith(Canon, DotHK)
            /\ ~EndsWith(Canon, DotSS)
            /\ ~EndsWith(Canon, DotSZ))
           => /\ Len(ticker) = Len(Canon)
              /\ \A i \in 1..Len(Canon) :
                    ticker[i] = IF Canon[i] = "." THEN "-" ELSE Canon[i]
        /\ (EndsWith(Canon, DotSS) \/ EndsWith(Canon, DotSZ))
           => ticker = Canon

C9_Witness ==
    /\ pc = "done"
    /\ raw_input = <<" ", "b", ".", "b">>
    /\ ticker = <<"B", "-", "B">>

AllDecimal(s) ==
    /\ Len(s) >= 1
    /\ \A i \in 1..Len(s) :
          s[i] \in {"0", "1", "2", "3", "4", "5", "6", "7", "8", "9"}

\* C10: an input whose trimmed form is exactly 6 decimal digits gets ".SS"
\* appended when its first digit is '6' or '9' and ".SZ" otherwise; an
\* all-digit input of any other length is returned without a suffix.
C10_SixDigitSuffix ==
    (pc = "done" /\ AllDecimal(Trimmed)) =>
        IF Len(Trimmed) = 6
        THEN ticker = Trimmed \o (IF Trimmed[1] \in {"6", "9"}
                                  THEN <<".", "S", "S">>
                                  ELSE <<".", "S", "Z">>)
        ELSE ticker = Trimmed

C10_Witness ==
    /\ pc = "done"
    /\ raw_input = <<"9", "0", "0", "0", "0", "0">>
    /\ ticker = <<"9", "0", "0", "0", "0", "0", ".", "S", "S">>

====
